---- MODULE Spec2Model ----
(***************************************************************************)
(* AI Interview Trainer backend (apps/backend).                            *)
(*                                                                         *)
(* Two revisions of the same API are modelled:                             *)
(*   "streaming" : main.py                   (POST /session/answer streams)*)
(*   "blocking"  : main.backup.preflight.py  (POST /session/answer is JSON)*)
(* The revision that is deployed is fixed in the initial state (mode).     *)
(*                                                                         *)
(* The relational store is modelled as three tables (sessions, turns,      *)
(* scores).  A transaction (async with engine.begin()) becomes visible at  *)
(* its commit; every await inside a handler is a step of that request.     *)
(***************************************************************************)
EXTENDS Integers, Sequences, FiniteSets, TLC

VARIABLES mode, sessions, turns, scores, req, started

vars == <<mode, sessions, turns, scores, req, started>>

(* ------------------------------ bounds --------------------------------- *)
\* rows of table sessions
MaxSessions == 2
\* rows of table turns
MaxTurns == 3

\* the requests that may be in flight; the concurrency claims are about two
Slots == {1, 2}

(* --------------------------- text and values --------------------------- *)
\* A text is a sequence of symbols; "|" and " " are the characters themselves,
\* every other symbol stands for a run of characters without "|" or blanks at
\* its ends.
NULL == "<NULL>"
NoRow == "<no row>"

RoleProfiles == {"Junior Developer"}
AnswerTexts == {"a1", "a2"}

\* Python values the decoders produce
PyInt(n) == [t |-> "int", v |-> n]
PyNone == [t |-> "none", v |-> 0]
PyStr == [t |-> "str", v |-> 0]

IsInt(x) == x.t = "int"
InRange(x) == IsInt(x) /\ x.v >= 0 /\ x.v <= 100

RECURSIVE lstrip(_)
lstrip(s) == IF s # <<>> /\ Head(s) = " " THEN lstrip(Tail(s)) ELSE s

RECURSIVE rstrip(_)
rstrip(s) ==
    IF s # <<>> /\ s[Len(s)] = " " THEN rstrip(SubSeq(s, 1, Len(s) - 1)) ELSE s

\* str.strip()
strip(s) == rstrip(lstrip(s))

\* positions where the separator '|||' starts
SepStarts(s) ==
    {i \in 1..(Len(s) - 2) : s[i] = "|" /\ s[i + 1] = "|" /\ s[i + 2] = "|"}

Min(S) == CHOOSE x \in S : \A y \in S : x <= y

\* str.split('|||'): leftmost, non-overlapping
RECURSIVE split(_)
split(s) ==
    IF SepStarts(s) = {} THEN <<s>>
    ELSE LET i == Min(SepStarts(s))
         IN  <<SubSeq(s, 1, i - 1)>> \o split(SubSeq(s, i + 3, Len(s)))

Max(S) == CHOOSE x \in S : \A y \in S : x >= y

(* ------------------------------ decoders ------------------------------- *)
ScoresDict(c, s, m) ==
    [kind |-> "dict", content |-> c, structure |-> s, communication |-> m]
NotADict == [kind |-> "other", content |-> PyNone, structure |-> PyNone,
             communication |-> PyNone]
DecodeError == [kind |-> "error", content |-> PyNone, structure |-> PyNone,
                communication |-> PyNone]

\* scores_data = {"content": 0, "structure": 0, "communication": 0}
FallbackScores == ScoresDict(PyInt(0), PyInt(0), PyInt(0))

\* json.loads of the text of a scores object; a key the object lacks reads as
\* None through dict.get
json_loads(s) ==
    CASE s = <<"{good}">> -> ScoresDict(PyInt(80), PyInt(60), PyInt(70))
      [] s = <<"{high}">> -> ScoresDict(PyInt(150), PyInt(-5), PyInt(50))
      [] s = <<"{part}">> -> ScoresDict(PyInt(80), PyNone, PyNone)
      [] s = <<"{text}">> -> ScoresDict(PyStr, PyInt(60), PyInt(70))
      [] s = <<"[]">> -> NotADict
      [] OTHER -> DecodeError

(* ------------------------------- store --------------------------------- *)
\* SELECT role_profile FROM sessions WHERE id = :session_id  (fetchone)
SessionRow(id) == IF id \in 1..Len(sessions) THEN sessions[id] ELSE NoRow

TurnIds(sid) == {i \in 1..Len(turns) : turns[i].session_id = sid}
OpenTurnIds(sid) == {i \in TurnIds(sid) : turns[i].a_text = NULL}

\* the open Turn looked up without the session filter
LatestOpenTurnAnywhere(sid) ==
    LET open == {i \in 1..Len(turns) : turns[i].a_text = NULL}
    IN  IF open = {} THEN 0 ELSE Max(open)

\* main.py: ... WHERE session_id = :session_id AND a_text IS NULL
\*          ORDER BY created_at DESC LIMIT 1   (0 stands for None)
LatestOpenTurn(sid) == IF OpenTurnIds(sid) = {} THEN 0 ELSE Max(OpenTurnIds(sid))

\* main.backup.preflight.py: ... WHERE session_id = :session_id
\*          ORDER BY created_at DESC LIMIT 1
LatestTurn(sid) == IF TurnIds(sid) = {} THEN 0 ELSE Max(TurnIds(sid))

\* the UPDATE left out
AttachAnswerNoop(ts, id, a) == ts

\* the UPDATE restricted to a Turn that is still open
AttachAnswerIfOpen(ts, id, a) ==
    IF ts[id].a_text = NULL THEN [ts EXCEPT ![id].a_text = a] ELSE ts

\* UPDATE turns SET a_text = :a_text WHERE id = :id
AttachAnswer(ts, id, a) == [ts EXCEPT ![id].a_text = a]

\* "If the interview is over (4-5 turns)" of the system prompt
TurnBudget == 5

\* no Turn is inserted once the session holds TurnBudget Turns
InsertTurnCapped(ts, sid, q) ==
    IF Cardinality({i \in 1..Len(ts) : ts[i].session_id = sid}) >= TurnBudget
    THEN ts
    ELSE Append(ts, [session_id |-> sid, q_text |-> q, a_text |-> NULL])

\* INSERT INTO turns (id, session_id, q_text)
InsertTurn(ts, sid, q) ==
    Append(ts, [session_id |-> sid, q_text |-> q, a_text |-> NULL])

\* INSERT INTO scores (turn_id, content, structure, comms)
InsertScore(sc, tid, d) ==
    Append(sc, [turn_id |-> tid, content |-> d.content,
                structure |-> d.structure, comms |-> d.communication])

\* scores.turn_id is unique
ScoreKeyFree(tid) == \A i \in 1..Len(scores) : scores[i].turn_id # tid

\* whether every value bound to the INSERT is an integer
AllInts(d) == IsInt(d.content) /\ IsInt(d.structure) /\ IsInt(d.communication)

(* ------------------------- completion provider ------------------------- *)
SEP == <<"|", "|", "|">>
COMPLETE == <<"INTERVIEW_COMPLETE">>

\* feedback, scores object and third section, each on a line of its own
ThreeSections(j, n) ==
    <<"fb", " ">> \o SEP \o <<" ", j, " ">> \o SEP \o <<" ">> \o n

\* texts the provider may produce in streaming mode
ProviderTexts ==
    { ThreeSections(j, <<"q">>) :
        j \in {"{good}", "{high}", "{part}", "{text}", "[]", "oops"} }
    \cup { ThreeSections("{good}", COMPLETE),
           ThreeSections("{good}", <<>>),
           <<"fb", " ">> \o SEP \o <<" ", "{good}">>,
           <<"fb">>,
           <<>> }

\* length of the fragments of a chopped text
ChunkLen == 4

RECURSIVE Chop(_)
Chop(s) ==
    IF Len(s) <= ChunkLen THEN <<s>>
    ELSE <<SubSeq(s, 1, ChunkLen)>> \o Chop(SubSeq(s, ChunkLen + 1, Len(s)))

\* a stream is the sequence of delta.content values of its chunks; the first
\* chunk of a chopped stream carries no content
ProviderStreams ==
    { <<s>> : s \in ProviderTexts } \cup { <<<<>>>> \o Chop(s) : s \in ProviderTexts }

\* the streams of the concurrent specification
RaceStreams ==
    { <<ThreeSections("{good}", <<"q">>)>>, <<ThreeSections("{good}", COMPLETE)>> }

(* ------------------------------ requests ------------------------------- *)
\* ReportMetrics, in tenths
Metrics(c, s, m, o) ==
    [avg_content |-> c, avg_structure |-> s, avg_communication |-> m,
     overall_avg |-> o]
NoMetrics == Metrics(0, 0, 0, 0)

IdleReq ==
    [op |-> "none", pc |-> "idle", session_id |-> 0, answer_text |-> NULL,
     session |-> NoRow, last_turn_id |-> 0, stream |-> <<>>,
     full_response |-> <<>>, content |-> "", out |-> <<>>, status |-> 0,
     escaped |-> FALSE, bullets |-> 0, resp_scores |-> DecodeError,
     metrics |-> NoMetrics, strongest |-> "", weakest |-> "",
     \* what the request was called on and what it has done so far
     existed |-> FALSE, open_at_call |-> 0, raised |-> FALSE, ended |-> FALSE,
     \* suspended at "yield content"; closed there by a client disconnect
     at_yield |-> FALSE, cancelled |-> FALSE,
     \* every chunk of response_stream, read or not
     stream0 |-> <<>>,
     \* inside an "async with engine.begin()" block
     tx |-> FALSE,
     upd |-> 0, ins_score |-> 0, ins_turn |-> 0]

Quiet == \A r \in Slots : req[r].pc = "idle"

InFlight == Cardinality({r \in Slots : req[r].op = "answer" /\ req[r].pc # "done"})

\* the response of the latest start call
StartSessionResponse(sid, q) == [session_id |-> sid, first_question |-> q]
NoStart == StartSessionResponse(0, <<>>)

Init ==
    /\ mode \in {"streaming", "blocking"}
    /\ started = NoStart
    /\ sessions = <<>>
    /\ turns = <<>>
    /\ scores = <<>>
    /\ req = [r \in Slots |-> IdleReq]

\* first_question of start_interview_session
FirstQuestion(role) ==
    IF mode = "streaming"
    THEN <<"Valkommen. For rollen som ", role, ", kan du beratta om ett projekt?">>
    ELSE <<"Valkommen. For rollen '", role, "', beratta om ett projekt.">>

\* POST /session/start: both INSERTs commit together
\* the Session is inserted and returned without its first Turn
StartSessionOnly(role) ==
    /\ Len(sessions) < MaxSessions
    /\ Len(turns) + InFlight < MaxTurns
    /\ sessions' = Append(sessions, role)
    /\ started' = StartSessionResponse(Len(sessions) + 1, FirstQuestion(role))
    /\ UNCHANGED <<mode, turns, scores, req>>

Start(role) ==
    /\ Len(sessions) < MaxSessions
    /\ Len(turns) + InFlight < MaxTurns
    /\ sessions' = Append(sessions, role)
    /\ turns' = InsertTurn(turns, Len(sessions) + 1, FirstQuestion(role))
    /\ started' = StartSessionResponse(Len(sessions) + 1, FirstQuestion(role))
    /\ UNCHANGED <<mode, scores, req>>

\* POST /session/answer arrives
BeginAnswerWithin(r, sid, a, cap) ==
    /\ req[r].pc = "idle"
    /\ Len(turns) + InFlight < cap
    /\ req' = [req EXCEPT ![r] =
                 [IdleReq EXCEPT !.op = "answer", !.pc = "session",
                                 !.session_id = sid, !.answer_text = a,
                                 !.existed = (SessionRow(sid) # NoRow),
                                 !.open_at_call = Cardinality(OpenTurnIds(sid))]]
    /\ UNCHANGED <<mode, started, sessions, turns, scores>>

BeginAnswer(r, sid, a) == BeginAnswerWithin(r, sid, a, MaxTurns)

\* the response has been delivered
Return(r) ==
    /\ req[r].pc = "done"
    /\ req' = [req EXCEPT ![r] = IdleReq]
    /\ UNCHANGED <<mode, started, sessions, turns, scores>>

(* ---------------- main.py: process_answer_streaming -------------------- *)
\* error_message = f"STREAM_ERROR: {str(e)}"
ErrorFragment(e) == <<"STREAM_ERROR: ", e>>

\* the handler re-raises instead of yielding the error fragment
CaughtReraised(q, e) ==
    [q EXCEPT !.pc = "done", !.status = 200, !.escaped = TRUE,
              !.at_yield = FALSE, !.tx = FALSE]

\* except Exception as e: yield error_message   (the response began as 200)
Caught(q, e) ==
    [q EXCEPT !.out = Append(q.out, ErrorFragment(e)), !.pc = "done",
              !.status = 200, !.at_yield = FALSE, !.tx = FALSE]

\* the block is left with the transaction still open
CommitDeferred(q) == q

\* leaving the "async with engine.begin()" block commits
Commit(q) == [q EXCEPT !.tx = FALSE]

\* async with engine.begin(): SELECT role_profile ...; 404 when there is no row
S_Session(r) ==
    /\ mode = "streaming" /\ req[r].op = "answer" /\ req[r].pc = "session"
    /\ LET row == SessionRow(req[r].session_id)
       IN  req' = [req EXCEPT ![r] =
                     IF row = NoRow
                     THEN Caught(req[r], "404: Session not found")
                     ELSE [req[r] EXCEPT !.session = row, !.pc = "history",
                                         !.tx = TRUE]]
    /\ UNCHANGED <<mode, started, sessions, turns, scores>>

\* SELECT q_text, a_text ... ORDER BY created_at ASC (feeds the prompt only)
S_History(r) ==
    /\ mode = "streaming" /\ req[r].op = "answer" /\ req[r].pc = "history"
    /\ req' = [req EXCEPT ![r].pc = "locate"]
    /\ UNCHANGED <<mode, started, sessions, turns, scores>>

\* SELECT id ... a_text IS NULL ...; 400 when there is none
S_Locate(r) ==
    /\ mode = "streaming" /\ req[r].op = "answer" /\ req[r].pc = "locate"
    /\ LET id == LatestOpenTurn(req[r].session_id)
       IN  req' = [req EXCEPT ![r] =
                     IF id = 0
                     THEN Caught(req[r], "400: No open question found.")
                     ELSE [req[r] EXCEPT !.last_turn_id = id, !.pc = "attach"]]
    /\ UNCHANGED <<mode, started, sessions, turns, scores>>

\* UPDATE turns SET a_text ...; the transaction commits
S_Attach(r) ==
    /\ mode = "streaming" /\ req[r].op = "answer" /\ req[r].pc = "attach"
    /\ turns' = AttachAnswer(turns, req[r].last_turn_id, req[r].answer_text)
    /\ req' = [req EXCEPT ![r] = Commit([req[r] EXCEPT !.pc = "call",
                                                        !.upd = 1])]
    /\ UNCHANGED <<mode, started, sessions, scores>>

\* response_stream = await acompletion(..., stream=True)
S_Call(r, streams) ==
    /\ mode = "streaming" /\ req[r].op = "answer" /\ req[r].pc = "call"
    /\ \E st \in streams :
         req' = [req EXCEPT ![r].stream = st, ![r].stream0 = st,
                            ![r].pc = "read"]
    /\ UNCHANGED <<mode, started, sessions, turns, scores>>

\* acompletion or the stream raises
S_ProviderError(r) ==
    /\ mode = "streaming" /\ req[r].op = "answer" /\ req[r].pc \in {"call", "read"}
    /\ req' = [req EXCEPT ![r] =
                 Caught([req[r] EXCEPT !.raised = TRUE], "provider error")]
    /\ UNCHANGED <<mode, started, sessions, turns, scores>>

\* async for chunk in response_stream: if content: full_response += content;
\* yield content
S_Read(r) ==
    /\ mode = "streaming" /\ req[r].op = "answer" /\ req[r].pc = "read"
    /\ req[r].stream # <<>>
    /\ LET content == Head(req[r].stream)
       IN  req' = [req EXCEPT ![r] =
                     IF content # <<>>
                     THEN [req[r] EXCEPT !.stream = Tail(@),
                                         !.full_response = @ \o content,
                                         !.out = Append(@, content),
                                         !.at_yield = TRUE]
                     ELSE [req[r] EXCEPT !.stream = Tail(@),
                                         !.at_yield = FALSE]]
    /\ UNCHANGED <<mode, started, sessions, turns, scores>>

\* the closed generator still stores the Score of what it has read
S_DisconnectSavesScore(r) ==
    /\ mode = "streaming" /\ req[r].op = "answer" /\ req[r].pc = "read"
    /\ req[r].at_yield
    /\ scores' = InsertScore(scores, req[r].last_turn_id, FallbackScores)
    /\ req' = [req EXCEPT ![r].pc = "done", ![r].status = 200,
                          ![r].cancelled = TRUE, ![r].at_yield = FALSE]
    /\ UNCHANGED <<mode, started, sessions, turns>>

\* the client disconnects while the generator is suspended at "yield content":
\* the generator is closed there (GeneratorExit is no Exception, so the
\* handler's except clause does not run) and nothing after the yield executes
S_Disconnect(r) ==
    /\ mode = "streaming" /\ req[r].op = "answer" /\ req[r].pc = "read"
    /\ req[r].at_yield
    /\ req' = [req EXCEPT ![r].pc = "done", ![r].status = 200,
                          ![r].cancelled = TRUE, ![r].at_yield = FALSE]
    /\ UNCHANGED <<mode, started, sessions, turns, scores>>

\* a Turn is inserted whatever the third section says
S_WantsTurnAlways(next_question_text) == TRUE

\* if next_question_text != 'INTERVIEW_COMPLETE'
S_WantsTurn(next_question_text) == next_question_text # COMPLETE

\* the stream is exhausted: split, decode and persist in one transaction
S_Persist(r) ==
    /\ mode = "streaming" /\ req[r].op = "answer" /\ req[r].pc = "read"
    /\ req[r].stream = <<>>
    /\ LET q == [req[r] EXCEPT !.ended = TRUE, !.at_yield = FALSE]
           parts == split(q.full_response)
       IN  IF Len(parts) >= 3
           THEN LET scores_json_text == strip(parts[2])
                    next_question_text == strip(parts[3])
                    decoded == json_loads(scores_json_text)
                    scores_data == IF decoded.kind = "error"
                                   THEN FallbackScores ELSE decoded
                IN  IF scores_data.kind # "dict"
                    THEN \* scores_data.get raises AttributeError
                         /\ req' = [req EXCEPT ![r] = Caught(q, "AttributeError")]
                         /\ UNCHANGED <<turns, scores>>
                    ELSE IF ~ScoreKeyFree(q.last_turn_id)
                    THEN \* the INSERT violates the unique key; rollback
                         /\ req' = [req EXCEPT ![r] = Caught(q, "IntegrityError")]
                         /\ UNCHANGED <<turns, scores>>
                    ELSE \E accepted \in (IF AllInts(scores_data)
                                          THEN {TRUE} ELSE BOOLEAN) :
                         IF ~accepted
                         THEN \* the store rejects a value that is no integer
                              /\ req' = [req EXCEPT ![r] = Caught(q, "DataError")]
                              /\ UNCHANGED <<turns, scores>>
                         ELSE /\ scores' = InsertScore(scores, q.last_turn_id,
                                                       scores_data)
                              /\ turns' = IF S_WantsTurn(next_question_text)
                                          THEN InsertTurn(turns, q.session_id,
                                                          next_question_text)
                                          ELSE turns
                              /\ req' = [req EXCEPT ![r] =
                                   [q EXCEPT !.pc = "done", !.status = 200,
                                             !.ins_score = 1,
                                             !.ins_turn =
                                               IF S_WantsTurn(next_question_text)
                                               THEN 1 ELSE 0]]
           ELSE /\ req' = [req EXCEPT ![r] =
                             [q EXCEPT !.pc = "done", !.status = 200]]
                /\ UNCHANGED <<turns, scores>>
    /\ UNCHANGED <<mode, started, sessions>>

(* ------------- main.backup.preflight.py: process_answer ---------------- *)
Absent == [kind |-> "absent", content |-> PyNone, structure |-> PyNone,
           communication |-> PyNone]
Bullets(k, n) == [kind |-> k, n |-> n]
Doc(k, sc, b, isnull, nq) ==
    [kind |-> k, scores |-> sc, bullets |-> b, next_null |-> isnull,
     next_question |-> nq]

\* json.loads(response.choices[0].message.content)
json_loads_doc(c) ==
    CASE c = "{full}" -> Doc("dict", json_loads(<<"{good}">>),
                             Bullets("list", 2), FALSE, <<"q">>)
      [] c = "{last}" -> Doc("dict", json_loads(<<"{good}">>),
                             Bullets("list", 1), TRUE, <<>>)
      [] c = "{}" -> Doc("dict", Absent, Bullets("absent", 0), TRUE, <<>>)
      [] c = "{high}" -> Doc("dict", json_loads(<<"{high}">>),
                             Bullets("list", 1), FALSE, <<"q">>)
      [] c = "{part}" -> Doc("dict", json_loads(<<"{part}">>),
                             Bullets("list", 1), FALSE, <<"q">>)
      [] c = "{scores: 5}" -> Doc("dict", NotADict, Bullets("list", 1),
                                  FALSE, <<"q">>)
      [] c = "{bullets: 5}" -> Doc("dict", json_loads(<<"{good}">>),
                                   Bullets("other", 0), FALSE, <<>>)
      [] c = "[]" -> Doc("other", Absent, Bullets("absent", 0), TRUE, <<>>)
      [] OTHER -> Doc("error", Absent, Bullets("absent", 0), TRUE, <<>>)

\* contents the provider may return in blocking mode
ProviderContents ==
    {"{full}", "{last}", "{}", "{high}", "{part}", "{scores: 5}",
     "{bullets: 5}", "[]", "oops"}

\* except Exception as e: raise HTTPException(status_code=500, ...)
Failed(q) == [q EXCEPT !.pc = "done", !.status = 500, !.tx = FALSE]

\* SELECT role_profile ...; the 404 is raised inside the try
B_Session(r) ==
    /\ mode = "blocking" /\ req[r].op = "answer" /\ req[r].pc = "session"
    /\ LET row == SessionRow(req[r].session_id)
       IN  req' = [req EXCEPT ![r] =
                     IF row = NoRow THEN Failed(req[r])
                     ELSE [req[r] EXCEPT !.session = row, !.pc = "history",
                                         !.tx = TRUE]]
    /\ UNCHANGED <<mode, started, sessions, turns, scores>>

B_History(r) ==
    /\ mode = "blocking" /\ req[r].op = "answer" /\ req[r].pc = "history"
    /\ req' = [req EXCEPT ![r].pc = "locate"]
    /\ UNCHANGED <<mode, started, sessions, turns, scores>>

\* SELECT id FROM turns WHERE session_id = ... ORDER BY created_at DESC LIMIT 1
B_Locate(r) ==
    /\ mode = "blocking" /\ req[r].op = "answer" /\ req[r].pc = "locate"
    /\ req' = [req EXCEPT ![r].last_turn_id = LatestTurn(req[r].session_id),
                          ![r].pc = "attach"]
    /\ UNCHANGED <<mode, started, sessions, turns, scores>>

\* if last_turn_id: UPDATE turns SET a_text ...; the transaction commits
B_Attach(r) ==
    /\ mode = "blocking" /\ req[r].op = "answer" /\ req[r].pc = "attach"
    /\ IF req[r].last_turn_id # 0
       THEN /\ turns' = AttachAnswer(turns, req[r].last_turn_id,
                                     req[r].answer_text)
            /\ req' = [req EXCEPT ![r] = Commit([req[r] EXCEPT !.pc = "call",
                                                                !.upd = 1])]
       ELSE /\ req' = [req EXCEPT ![r] = Commit([req[r] EXCEPT !.pc = "call"])]
            /\ UNCHANGED turns
    /\ UNCHANGED <<mode, started, sessions, scores>>

\* response = await acompletion(...)
B_Call(r, contents) ==
    /\ mode = "blocking" /\ req[r].op = "answer" /\ req[r].pc = "call"
    /\ \E c \in contents :
         req' = [req EXCEPT ![r].content = c, ![r].pc = "parse"]
    /\ UNCHANGED <<mode, started, sessions, turns, scores>>

\* acompletion raises
B_ProviderError(r) ==
    /\ mode = "blocking" /\ req[r].op = "answer" /\ req[r].pc = "call"
    /\ req' = [req EXCEPT ![r] = Failed([req[r] EXCEPT !.raised = TRUE])]
    /\ UNCHANGED <<mode, started, sessions, turns, scores>>

\* Feedback(bullets=feedback_bullets, scores=Scores(**scores_data)) validates
ValidFeedback(feedback_bullets, scores_data) ==
    feedback_bullets.kind = "list" /\ AllInts(scores_data)

\* decode, persist in one transaction, build the response
B_Persist(r) ==
    /\ mode = "blocking" /\ req[r].op = "answer" /\ req[r].pc = "parse"
    /\ LET q == [req[r] EXCEPT !.ended = TRUE]
           ai_response_json == json_loads_doc(q.content)
           scores_data == IF ai_response_json.scores.kind = "absent"
                          THEN FallbackScores ELSE ai_response_json.scores
           feedback_bullets == IF ai_response_json.bullets.kind = "absent"
                               THEN Bullets("list", 1)
                               ELSE ai_response_json.bullets
           wants_turn == ~ai_response_json.next_null
                         /\ ai_response_json.next_question # <<>>
       IN  IF ai_response_json.kind # "dict" \/ scores_data.kind # "dict"
              \/ ~ScoreKeyFree(q.last_turn_id)
           THEN \* JSONDecodeError, AttributeError or IntegrityError
                /\ req' = [req EXCEPT ![r] = Failed(q)]
                /\ UNCHANGED <<turns, scores>>
           ELSE \E accepted \in (IF AllInts(scores_data)
                                 THEN {TRUE} ELSE BOOLEAN) :
                IF ~accepted
                THEN /\ req' = [req EXCEPT ![r] = Failed(q)]
                     /\ UNCHANGED <<turns, scores>>
                ELSE /\ scores' = InsertScore(scores, q.last_turn_id, scores_data)
                     /\ turns' = IF wants_turn
                                 THEN InsertTurn(turns, q.session_id,
                                                 ai_response_json.next_question)
                                 ELSE turns
                     /\ req' = [req EXCEPT ![r] =
                          LET w == [q EXCEPT !.pc = "done", !.ins_score = 1,
                                             !.ins_turn = IF wants_turn
                                                          THEN 1 ELSE 0]
                          IN  IF ValidFeedback(feedback_bullets, scores_data)
                              THEN [w EXCEPT !.status = 200,
                                             !.bullets = feedback_bullets.n,
                                             !.resp_scores = scores_data]
                              ELSE \* ValidationError outside the try
                                   [w EXCEPT !.status = 500, !.escaped = TRUE]]
    /\ UNCHANGED <<mode, started, sessions>>

(* --------- main.backup.preflight.py: get_final_report ------------------ *)
\* scores s JOIN turns t ON s.turn_id = t.id
\* WHERE t.session_id = :session_id AND t.a_text IS NOT NULL
ReportRows(sid) ==
    {i \in 1..Len(scores) :
        /\ scores[i].turn_id \in TurnIds(sid)
        /\ turns[scores[i].turn_id].a_text # NULL}

\* sum(...) / len(scores) needs numbers
Summable(rows) ==
    \A i \in rows : IsInt(scores[i].content) /\ IsInt(scores[i].structure)
                    /\ IsInt(scores[i].comms)

\* the fraction cut off instead of rounded
RoundDown(p, q) == p \div q
\* round(): to the nearest, a tie to the even neighbour.
\* The quotients of the report are exact in floating point whenever they are a
\* tie, as long as fewer than 12 Scores are averaged.
RoundHalfEven(p, q) ==
    LET f == p \div q
        rem == p % q
    IN  IF 2 * rem < q THEN f
        ELSE IF 2 * rem > q THEN f + 1
        ELSE IF f % 2 = 0 THEN f ELSE f + 1

\* round(total / n, 1), in tenths
Round1(total, n) == RoundHalfEven(10 * total, n)

RECURSIVE SumOver(_, _)
SumOver(rows, col) ==
    IF rows = {} THEN 0
    ELSE LET i == CHOOSE x \in rows : TRUE
         IN  (IF col = "content" THEN scores[i].content.v
              ELSE IF col = "structure" THEN scores[i].structure.v
              ELSE scores[i].comms.v) + SumOver(rows \ {i}, col)

\* metrics = ReportMetrics(...); overall_avg averages the unrounded means
ReportMetricsOf(rows) ==
    LET n == Cardinality(rows)
        c == SumOver(rows, "content")
        s == SumOver(rows, "structure")
        m == SumOver(rows, "communication")
    IN  Metrics(Round1(c, n), Round1(s, n), Round1(m, n),
                Round1(c + s + m, 3 * n))

\* the dimension always named as the weakest
WeakestIsCommunication(rows) == "Communication"

\* 'Content' if avg_content > avg_structure else 'Structure'
Strongest(rows) ==
    IF SumOver(rows, "content") > SumOver(rows, "structure")
    THEN "Content" ELSE "Structure"

\* 'Communication' if avg_communication < avg_structure else 'Structure'
Weakest(rows) ==
    IF SumOver(rows, "communication") < SumOver(rows, "structure")
    THEN "Communication" ELSE "Structure"

BeginReport(r, sid) ==
    /\ req[r].pc = "idle"
    /\ req' = [req EXCEPT ![r] =
                 [IdleReq EXCEPT !.op = "report", !.pc = "session",
                                 !.session_id = sid,
                                 !.existed = (SessionRow(sid) # NoRow)]]
    /\ UNCHANGED <<mode, started, sessions, turns, scores>>

\* the 404 is raised inside the try and becomes a 500
R_Session(r) ==
    /\ req[r].op = "report" /\ req[r].pc = "session"
    /\ LET row == SessionRow(req[r].session_id)
       IN  req' = [req EXCEPT ![r] =
                     IF row = NoRow THEN Failed(req[r])
                     ELSE [req[r] EXCEPT !.session = row, !.pc = "scores"]]
    /\ UNCHANGED <<mode, started, sessions, turns, scores>>

\* a report that removes the rows it has read
R_ScoresConsume(r) ==
    /\ req[r].op = "report" /\ req[r].pc = "scores"
    /\ LET rows == ReportRows(req[r].session_id)
       IN  /\ req' = [req EXCEPT ![r] =
                        IF rows = {} \/ ~Summable(rows) THEN Failed(req[r])
                        ELSE [req[r] EXCEPT !.pc = "done", !.status = 200,
                                            !.metrics = ReportMetricsOf(rows),
                                            !.strongest = Strongest(rows),
                                            !.weakest = Weakest(rows)]]
           /\ scores' = IF rows = {} THEN scores ELSE <<>>
    /\ UNCHANGED <<mode, started, sessions, turns>>

R_Scores(r) ==
    /\ req[r].op = "report" /\ req[r].pc = "scores"
    /\ LET rows == ReportRows(req[r].session_id)
       IN  req' = [req EXCEPT ![r] =
                     IF rows = {} \/ ~Summable(rows) THEN Failed(req[r])
                     ELSE [req[r] EXCEPT !.pc = "done", !.status = 200,
                                         !.metrics = ReportMetricsOf(rows),
                                         !.strongest = Strongest(rows),
                                         !.weakest = Weakest(rows)]]
    /\ UNCHANGED <<mode, started, sessions, turns, scores>>

(* --------------------------- specifications ---------------------------- *)
SessionIds == 1..MaxSessions

\* calls one after another, each run to completion
SeqStart == Quiet /\ \E role \in RoleProfiles : Start(role)
SeqBeginAnswer ==
    Quiet /\ \E r \in Slots, sid \in SessionIds, a \in AnswerTexts :
                BeginAnswer(r, sid, a)
SeqBeginReport == Quiet /\ \E r \in Slots, sid \in SessionIds : BeginReport(r, sid)

Step ==
    \E r \in Slots :
        \/ S_Session(r) \/ S_History(r) \/ S_Locate(r) \/ S_Attach(r)
        \/ S_ProviderError(r) \/ S_Read(r) \/ S_Disconnect(r) \/ S_Persist(r)
        \/ B_Session(r) \/ B_History(r) \/ B_Locate(r) \/ B_Attach(r)
        \/ B_ProviderError(r) \/ B_Persist(r)
        \/ Return(r)

ReportStep == \E r \in Slots : R_Session(r) \/ R_Scores(r)

SeqCall ==
    \E r \in Slots : S_Call(r, ProviderStreams) \/ B_Call(r, ProviderContents)

Next ==
    SeqStart \/ SeqBeginAnswer \/ SeqBeginReport \/ SeqCall \/ Step \/ ReportStep

Spec == Init /\ [][Next]_vars

\* requests interleave at their awaits
RaceStart == \E role \in RoleProfiles : Start(role)
RaceAnswer(r) == IF r = 1 THEN "a1" ELSE "a2"
RaceBeginAnswer ==
    \E r \in Slots, sid \in SessionIds : BeginAnswer(r, sid, RaceAnswer(r))
RaceCall ==
    \E r \in Slots : S_Call(r, RaceStreams) \/ B_Call(r, {"{full}", "{last}"})

NextConc == RaceStart \/ RaceBeginAnswer \/ RaceCall \/ Step

SpecConc == Init /\ [][NextConc]_vars

(* ---- sessions of any role; the first one's interview goes on long ---- *)
\* rows of table turns in the long interview
LongTurns == 7

\* role_profile is any string, the empty one included
LongRoles == RoleProfiles \cup {""}

LongStart == Quiet /\ \E role \in LongRoles : Start(role)
LongBeginAnswer == Quiet /\ BeginAnswerWithin(1, 1, "a1", LongTurns)
LongCall == S_Call(1, RaceStreams) \/ B_Call(1, {"{full}", "{last}"})

NextLong == LongStart \/ LongBeginAnswer \/ LongCall \/ Step

SpecLong == Init /\ [][NextLong]_vars

(* ------- calls on different sessions interleave at their awaits -------- *)
\* rows of table turns when two sessions are answered side by side
IsoTurns == 4

\* each slot calls the session of its own number
IsoStart == \E role \in RoleProfiles : Start(role)
IsoBeginAnswer ==
    \E r \in Slots : BeginAnswerWithin(r, r, RaceAnswer(r), IsoTurns)
IsoBeginReport == \E r \in Slots : BeginReport(r, r)

NextIso ==
    IsoStart \/ IsoBeginAnswer \/ IsoBeginReport \/ RaceCall \/ Step \/ ReportStep

SpecIso == Init /\ [][NextIso]_vars

(* ---- the report handler on a store that holds a session's Scores ------ *)
\* Scores of one session
MaxRows == 4

ScoreTriples ==
    { <<80, 60, 70>>, <<50, 60, 90>>, <<70, 70, 70>>, <<1, 0, 2>>,
      <<30, 90, 60>> }

InitReport ==
    /\ mode = "blocking"
    /\ sessions = <<"Junior Developer">>
    /\ req = [r \in Slots |-> IdleReq]
    /\ started = NoStart
    /\ \E n \in 0..MaxRows : \E f \in [1..n -> ScoreTriples] :
         /\ turns = [i \in 1..n |->
                       [session_id |-> 1, q_text |-> <<"q">>, a_text |-> "a1"]]
         /\ scores = [i \in 1..n |->
                        [turn_id |-> i, content |-> PyInt(f[i][1]),
                         structure |-> PyInt(f[i][2]), comms |-> PyInt(f[i][3])]]

AnyBeginReport == \E r \in Slots, sid \in SessionIds : BeginReport(r, sid)
AnyReturn == \E r \in Slots : Return(r)

NextReport == AnyBeginReport \/ ReportStep \/ AnyReturn

SpecReport == InitReport /\ [][NextReport]_vars

(* ------------------------------ properties ----------------------------- *)
AnswerDone(r) == req[r].op = "answer" /\ req[r].pc = "done"

ScoresOf(tid) == {i \in 1..Len(scores) : scores[i].turn_id = tid}

RECURSIVE Concat(_)
Concat(fs) == IF fs = <<>> THEN <<>> ELSE Head(fs) \o Concat(Tail(fs))

\* C1: calls run one after another: every session has at most one Turn whose
\* a_text is absent, under the streaming and under the blocking handler.
AtMostOneOpenTurn ==
    \A sid \in 1..Len(sessions) : Cardinality(OpenTurnIds(sid)) <= 1

\* an answer call has attached its answer and opened the next question
AnsweredAndReopened ==
    \E r \in Slots :
        /\ AnswerDone(r) /\ req[r].upd = 1 /\ req[r].ins_turn = 1
        /\ turns[req[r].last_turn_id].a_text = req[r].answer_text
        /\ Cardinality(OpenTurnIds(req[r].session_id)) = 1

\* C2: once a Turn has a_text present, no later step changes that a_text.
AnswerWrittenOnce ==
    [][\A i \in 1..Len(turns) :
          turns[i].a_text # NULL => turns'[i].a_text = turns[i].a_text]_vars

\* C3: an answer call whose session_id references no Session is answered
\* with status 404.
UnknownSessionIs404 ==
    \A r \in Slots :
        AnswerDone(r) /\ req[r].session = NoRow => req[r].status = 404

\* C4: an answer call on an existing session with zero open Turns fails with
\* status 400 and writes nothing.
NoOpenTurnIs400 ==
    \A r \in Slots :
        AnswerDone(r) /\ req[r].existed /\ req[r].open_at_call = 0
        => /\ req[r].status = 400
           /\ req[r].upd = 0 /\ req[r].ins_score = 0 /\ req[r].ins_turn = 0

\* C5: blocking handler, existing session with an open Turn: a provider call
\* that raises or returns text that is no JSON still yields status 200 with
\* at least one bullet and three integer sub-scores in [0,100].
ProviderFailureFallsBack ==
    \A r \in Slots :
        /\ mode = "blocking" /\ AnswerDone(r)
        /\ req[r].existed /\ req[r].open_at_call >= 1
        /\ (req[r].raised \/ json_loads_doc(req[r].content).kind = "error")
        => /\ req[r].status = 200
           /\ req[r].bullets >= 1
           /\ InRange(req[r].resp_scores.content)
           /\ InRange(req[r].resp_scores.structure)
           /\ InRange(req[r].resp_scores.communication)

\* C6: every persisted Score has content, structure and communication each
\* an integer in [0,100].
PersistedScoresInRange ==
    \A i \in 1..Len(scores) :
        InRange(scores[i].content) /\ InRange(scores[i].structure)
        /\ InRange(scores[i].comms)

\* C7: streaming handler: an answer call that attached its answer and whose
\* provider stream ended without error leaves exactly one Score for that Turn.
StreamedAnswerHasOneScore ==
    \A r \in Slots :
        /\ mode = "streaming" /\ AnswerDone(r)
        /\ req[r].upd = 1 /\ req[r].ended
        => Cardinality(ScoresOf(req[r].last_turn_id)) = 1

\* C8: a report call is answered with status 404 when the session does not
\* exist and when it has no Score joined to an answered Turn.
ReportWithoutDataIs404 ==
    \A r \in Slots :
        /\ req[r].op = "report" /\ req[r].pc = "done"
        /\ (req[r].session = NoRow \/ ReportRows(req[r].session_id) = {})
        => req[r].status = 404

\* C9: streaming handler: when the provider call or the provider stream
\* raises, the body is the forwarded fragments followed by one final fragment
\* that starts with 'STREAM_ERROR: ', no exception leaves the generator, and
\* the request has inserted no Score and no Turn.
ProviderErrorSurfaced ==
    \A r \in Slots :
        mode = "streaming" /\ AnswerDone(r) /\ req[r].raised
        => /\ req[r].out # <<>>
           /\ Head(req[r].out[Len(req[r].out)]) = "STREAM_ERROR: "
           /\ Concat(SubSeq(req[r].out, 1, Len(req[r].out) - 1))
                = req[r].full_response
           /\ \A k \in 1..(Len(req[r].out) - 1) :
                 Head(req[r].out[k]) # "STREAM_ERROR: "
           /\ ~req[r].escaped
           /\ req[r].ins_score = 0 /\ req[r].ins_turn = 0
           /\ ScoresOf(req[r].last_turn_id) = {}
           /\ \A i \in TurnIds(req[r].session_id) : i <= req[r].last_turn_id

\* the stream raised after at least two fragments had been forwarded
ErrorAfterFragments ==
    \E r \in Slots :
        /\ mode = "streaming" /\ AnswerDone(r) /\ req[r].raised
        /\ req[r].upd = 1 /\ Len(req[r].out) >= 3

\* C10: two answer requests on one session are not excluded from each other:
\* the attach step writes the request's answer_text to the Turn it located,
\* whatever another request has written to that Turn since.
AttachOverwrites ==
    [][\A r \in Slots :
          /\ req[r].op = "answer" /\ req[r].pc = "attach"
          /\ req'[r].pc = "call" /\ req[r].last_turn_id # 0
          => turns'[req[r].last_turn_id].a_text = req[r].answer_text]_vars

\* both requests located the same open Turn, both attached (the later write
\* replaced the earlier) and both are at the provider call
BothAttachedSameTurn ==
    \E r1, r2 \in Slots :
        /\ r1 # r2 /\ mode = "streaming"
        /\ req[r1].op = "answer" /\ req[r2].op = "answer"
        /\ req[r1].pc = "call" /\ req[r2].pc = "call"
        /\ req[r1].upd = 1 /\ req[r2].upd = 1
        /\ req[r1].last_turn_id = req[r2].last_turn_id
        /\ req[r1].answer_text # req[r2].answer_text
        /\ turns[req[r1].last_turn_id].a_text = req[r2].answer_text

ReportOk(r) == req[r].op = "report" /\ req[r].pc = "done" /\ req[r].status = 200

Abs(x) == IF x < 0 THEN 0 - x ELSE x

\* the first dimension, in the order content, structure, communication, whose
\* total is the highest (the lowest) of the three
HighestDimension(c, s, m) ==
    IF c >= s /\ c >= m THEN "Content"
    ELSE IF s >= m THEN "Structure" ELSE "Communication"
LowestDimension(c, s, m) ==
    IF c <= s /\ c <= m THEN "Content"
    ELSE IF s <= m THEN "Structure" ELSE "Communication"

\* C11: the summary names as strongest the dimension with the highest mean
\* and as weakest the one with the lowest mean, ties going to content, then
\* structure, then communication.
SummaryNamesExtremes ==
    \A r \in Slots :
        ReportOk(r) =>
          LET rows == ReportRows(req[r].session_id)
              c == SumOver(rows, "content")
              s == SumOver(rows, "structure")
              m == SumOver(rows, "communication")
          IN  /\ req[r].strongest = HighestDimension(c, s, m)
              /\ req[r].weakest = LowestDimension(c, s, m)

\* C12: overall_avg is within 0.1 of the mean of the three reported averages,
\* each of which is the mean of its dimension rounded to one decimal.
OverallWithinTolerance ==
    \A r \in Slots :
        ReportOk(r) =>
          LET rows == ReportRows(req[r].session_id)
              n == Cardinality(rows)
              mt == req[r].metrics
          IN  /\ n >= 1
              /\ Abs(3 * mt.overall_avg
                     - (mt.avg_content + mt.avg_structure + mt.avg_communication))
                   <= 3
              /\ 2 * Abs(n * mt.avg_content - 10 * SumOver(rows, "content")) <= n
              /\ 2 * Abs(n * mt.avg_structure - 10 * SumOver(rows, "structure")) <= n
              /\ 2 * Abs(n * mt.avg_communication
                         - 10 * SumOver(rows, "communication")) <= n

\* a report over several Scores whose overall_avg is not the mean of the three
\* rounded averages
OverallDiffersFromMeanOfRounded ==
    \E r \in Slots :
        /\ ReportOk(r) /\ Cardinality(ReportRows(req[r].session_id)) >= 2
        /\ 3 * req[r].metrics.overall_avg
             # req[r].metrics.avg_content + req[r].metrics.avg_structure
               + req[r].metrics.avg_communication

\* the session's only Score is {content: 80, structure: 60, communication: 70}
OnlyScoreIs806070(r) ==
    LET rows == ReportRows(req[r].session_id)
    IN  /\ ScoresOf(1) = rows /\ Len(scores) = 1
        /\ turns[1].session_id = req[r].session_id
        /\ scores[1].content = PyInt(80) /\ scores[1].structure = PyInt(60)
        /\ scores[1].comms = PyInt(70)

\* C16 as stated: overall_avg 70.0, content strongest, communication weakest.
ScenarioEAsStated ==
    \A r \in Slots :
        ReportOk(r) /\ OnlyScoreIs806070(r)
        => /\ req[r].metrics.overall_avg = 700
           /\ req[r].strongest = "Content"
           /\ req[r].weakest = "Communication"

\* C16: for the only Score {80, 60, 70} the report has overall_avg 70.0 and
\* names content as the strongest and structure as the weakest dimension.
ScenarioE ==
    \A r \in Slots :
        ReportOk(r) /\ OnlyScoreIs806070(r)
        => /\ req[r].metrics.overall_avg = 700
           /\ req[r].strongest = "Content"
           /\ req[r].weakest = "Structure"

ScenarioEReported == \E r \in Slots : ReportOk(r) /\ OnlyScoreIs806070(r)

\* C15: a report call changes no Session, Turn or Score, and a report that
\* completes while another report on the same session is still held returns
\* the same metrics.
ReportRepeatable ==
    [][\A r \in Slots :
          req[r].op = "report" /\ req'[r] # req[r]
          => /\ UNCHANGED <<sessions, turns, scores>>
             /\ ReportOk(r)'
                => \A q \in Slots \ {r} :
                      ReportOk(q) /\ req[q].session_id = req[r].session_id
                      => req'[r].metrics = req[q].metrics]_vars

\* two completed reports on one session with fractional averages
TwoReportsHeld ==
    \E r, q \in Slots :
        /\ r # q /\ ReportOk(r) /\ ReportOk(q)
        /\ req[r].session_id = req[q].session_id
        /\ req[r].metrics = req[q].metrics
        /\ req[r].metrics.avg_content % 10 # 0

\* C13: a start call adds exactly one Session and exactly one Turn of it, in
\* one step; the Turn has no a_text and a non-empty q_text, the response
\* carries that q_text and the new Session's id, and no request moves (no
\* provider call is made).
StartAddsSessionAndTurn ==
    [][sessions' # sessions \/ started' # started
       => /\ sessions' = Append(sessions, sessions'[Len(sessions')])
          /\ Len(turns') = Len(turns) + 1
          /\ SubSeq(turns', 1, Len(turns)) = turns
          /\ LET t == turns'[Len(turns')]
             IN  /\ t.session_id = Len(sessions')
                 /\ t.a_text = NULL
                 /\ t.q_text # <<>>
                 /\ started'.first_question = t.q_text
                 /\ started'.session_id = Len(sessions')
          /\ UNCHANGED <<scores, req>>]_vars

\* a second session, of the empty role profile, has been started after the
\* first was answered
SecondSessionStarted ==
    /\ started.session_id = 2 /\ Len(sessions) = 2
    /\ sessions[2] = "" /\ sessions[1] # ""
    /\ OpenTurnIds(2) = {Len(turns)}
    /\ turns[Len(turns)].q_text = started.first_question
    /\ \E i \in TurnIds(1) : turns[i].a_text # NULL

\* the Turns of session sid inserted after Turn tid
Successors(sid, tid) == {i \in TurnIds(sid) : i > tid}

\* C14: a streaming answer whose generator was closed at a fragment yield has
\* its answer stored whole and neither a Score nor a successor Turn; a
\* streaming answer that did insert its Score ran to the end of the stream
\* and inserted the next question's Turn of the same step unless the third
\* section was the terminal marker.
DisconnectLeavesStateWhole ==
    \A r \in Slots :
        mode = "streaming" /\ AnswerDone(r)
        => LET q == req[r]
               parts == split(q.full_response)
           IN  /\ q.cancelled
                  => /\ q.upd = 1 /\ q.ins_score = 0 /\ q.ins_turn = 0
                     /\ turns[q.last_turn_id].a_text = q.answer_text
                     /\ ScoresOf(q.last_turn_id) = {}
                     /\ Successors(q.session_id, q.last_turn_id) = {}
               /\ q.upd = 1 /\ ScoresOf(q.last_turn_id) # {}
                  => /\ ~q.cancelled /\ q.ended /\ Len(parts) >= 3
                     /\ strip(parts[3]) # COMPLETE
                        => \E i \in Successors(q.session_id, q.last_turn_id) :
                              /\ turns[i].q_text = strip(parts[3])
                              /\ turns[i].a_text = NULL
                     /\ strip(parts[3]) = COMPLETE
                        => Successors(q.session_id, q.last_turn_id) = {}

\* the generator was closed at the yield of the last fragment of a response
\* with all three sections: the persistence step was skipped
DisconnectedBeforePersistence ==
    \E r \in Slots :
        /\ mode = "streaming" /\ AnswerDone(r) /\ req[r].cancelled
        /\ req[r].stream = <<>>
        /\ Len(split(req[r].full_response)) >= 3
        /\ ScoresOf(req[r].last_turn_id) = {}

\* C17: every answer request reads the history and attaches the answer inside
\* one transaction that is committed before the provider is called; while the
\* request waits for the provider or for a fragment no transaction is open
\* and nothing is persisted yet; Score and next Turn are inserted only once
\* the provider's output is complete.
StepsStrictlyOrdered ==
    \A r \in Slots :
        req[r].op = "answer"
        => LET q == req[r]
               called == q.stream # <<>> \/ q.out # <<>> \/ q.content # ""
                         \/ q.raised \/ q.ended
           IN  /\ q.pc = "session" => ~q.tx /\ q.upd = 0 /\ ~called
               /\ q.pc \in {"history", "locate", "attach"}
                  => q.tx /\ q.upd = 0 /\ ~called
               /\ q.pc \in {"call", "read", "parse"}
                  => /\ ~q.tx /\ ~q.ended
                     /\ q.ins_score = 0 /\ q.ins_turn = 0
                     /\ q.upd = 1 \/ q.last_turn_id = 0
               /\ q.pc = "call" => ~called
               /\ called => q.upd = 1 \/ q.last_turn_id = 0
               /\ q.ins_score = 1 \/ q.ins_turn = 1
                  => q.ended /\ ~q.raised /\ q.pc = "done" /\ ~q.tx
               /\ q.pc = "done" => ~q.tx

\* a request waits for the next fragment with its answer committed and no
\* transaction open
WaitingOnFragment ==
    \E r \in Slots :
        /\ req[r].op = "answer" /\ req[r].pc = "read"
        /\ req[r].out # <<>> /\ req[r].stream # <<>>
        /\ ~req[r].tx /\ req[r].upd = 1
        /\ turns[req[r].last_turn_id].a_text = req[r].answer_text

\* the contents that are not empty, in order
RECURSIVE NonEmpty(_)
NonEmpty(fs) ==
    IF fs = <<>> THEN <<>>
    ELSE IF Head(fs) = <<>> THEN NonEmpty(Tail(fs))
    ELSE <<Head(fs)>> \o NonEmpty(Tail(fs))

\* C18: while and after a provider stream that does not error is read, the
\* fragments emitted to the client are exactly the non-empty contents of the
\* chunks read so far, in order, and their concatenation is the accumulated
\* text, which is the text that is split and persisted.
EmittedAreProviderFragments ==
    \A r \in Slots :
        /\ mode = "streaming" /\ req[r].op = "answer"
        /\ req[r].stream0 # <<>> /\ ~req[r].raised
        => LET q == req[r]
               read == SubSeq(q.stream0, 1, Len(q.stream0) - Len(q.stream))
           IN  /\ q.out = NonEmpty(read)
               /\ Concat(q.out) = q.full_response
               /\ q.ended => q.stream = <<>>

\* the provider's next question of a request, <<>> when it produced none
NextQuestionOf(q) ==
    IF mode = "streaming"
    THEN LET parts == split(q.full_response)
         IN  IF Len(parts) >= 3 /\ strip(parts[3]) # COMPLETE
             THEN strip(parts[3]) ELSE <<>>
    ELSE json_loads_doc(q.content).next_question

\* the provider produced the terminal marker
TerminalOf(q) ==
    IF mode = "streaming"
    THEN LET parts == split(q.full_response)
         IN  Len(parts) >= 3 /\ strip(parts[3]) = COMPLETE
    ELSE json_loads_doc(q.content).next_null

\* C19: once an answer call has persisted its result, the session has exactly
\* one open Turn, holding the provider's next question, when there was one,
\* and no open Turn when the provider produced the terminal marker; in the
\* terminal case the Score is inserted and no Turn is.
OpenTurnFollowsProvider ==
    \A r \in Slots :
        AnswerDone(r) /\ req[r].ins_score = 1
        => LET q == req[r]
               open == OpenTurnIds(q.session_id)
           IN  /\ Cardinality(ScoresOf(q.last_turn_id)) = 1
               /\ NextQuestionOf(q) # <<>>
                  => /\ Cardinality(open) = 1
                     /\ \A i \in open : /\ turns[i].q_text = NextQuestionOf(q)
                                         /\ i > q.last_turn_id
               /\ TerminalOf(q)
                  => /\ open = {}
                     /\ Successors(q.session_id, q.last_turn_id) = {}

\* a streamed answer ended the interview: Score stored, nothing left open
InterviewCompleted ==
    \E r \in Slots :
        /\ mode = "streaming" /\ AnswerDone(r) /\ req[r].ins_score = 1
        /\ TerminalOf(req[r])
        /\ ScoresOf(req[r].last_turn_id) # {}
        /\ OpenTurnIds(req[r].session_id) = {}
        /\ Len(scores) = 2

AnsweredTurns(sid) == {i \in TurnIds(sid) : turns[i].a_text # NULL}

\* C20: the orchestrator enforces no turn budget: a session that has reached
\* or passed the 4-5 turns of the prompt still gets its next open Turn
\* whenever the provider returns a next question.
NoTurnBudgetEnforced ==
    \A r \in Slots :
        /\ AnswerDone(r) /\ req[r].ins_score = 1
        /\ Cardinality(AnsweredTurns(req[r].session_id)) >= TurnBudget - 1
        /\ NextQuestionOf(req[r]) # <<>>
        => \E i \in OpenTurnIds(req[r].session_id) :
              /\ i > req[r].last_turn_id
              /\ turns[i].q_text = NextQuestionOf(req[r])

\* a session with more answered Turns than the budget, each scored, and the
\* next question open
BudgetExceeded ==
    /\ Cardinality(AnsweredTurns(1)) > TurnBudget
    /\ \A i \in AnsweredTurns(1) : ScoresOf(i) # {}
    /\ OpenTurnIds(1) # {}

\* the session a step acts for, given the slot whose request moved
CallSession(r) == IF req[r].op = "none" THEN req'[r].session_id ELSE req[r].session_id

\* the stored rows are kept except for the Turns of session sid, and every
\* row added belongs to session sid
WritesOnly(sid) ==
    /\ Len(turns') >= Len(turns) /\ Len(scores') >= Len(scores)
    /\ \A i \in 1..Len(turns) :
          /\ turns'[i].session_id = turns[i].session_id
          /\ turns[i].session_id # sid => turns'[i] = turns[i]
    /\ \A i \in (Len(turns) + 1)..Len(turns') : turns'[i].session_id = sid
    /\ \A i \in 1..Len(scores) : scores'[i] = scores[i]
    /\ \A i \in (Len(scores) + 1)..Len(scores') :
          /\ scores'[i].turn_id \in 1..Len(turns')
          /\ turns'[scores'[i].turn_id].session_id = sid

\* C21: a start, answer or report call for a session, interleaved with calls
\* for another session, changes no Turn and no Score of any other session,
\* and every Turn and Score it writes belongs to its own session.
SessionsIsolated ==
    [][/\ sessions' # sessions => WritesOnly(Len(sessions'))
       /\ \A r \in Slots :
             req'[r] # req[r] => WritesOnly(CallSession(r))]_vars

\* two requests, one per session, are held completed together: each attached
\* its answer to a Turn of its own session and inserted that Turn's Score
BothSessionsAnswered ==
    /\ req[1].op = "answer" /\ req[2].op = "answer"
    /\ req[1].session_id = 1 /\ req[2].session_id = 2
    /\ req[1].ins_score = 1 /\ req[2].ins_score = 1
    /\ turns[req[1].last_turn_id].session_id = 1
    /\ turns[req[2].last_turn_id].session_id = 2
    /\ turns[req[1].last_turn_id].a_text = "a1"
    /\ turns[req[2].last_turn_id].a_text = "a2"
    /\ ScoresOf(req[1].last_turn_id) # {} /\ ScoresOf(req[2].last_turn_id) # {}

\* the request attached its answer and then failed: the provider raised, the
\* output could not be decoded or persisted, or (streaming) it had fewer than
\* three sections
FailedAfterAttach(r) ==
    /\ AnswerDone(r) /\ req[r].upd = 1 /\ req[r].ins_score = 0
    /\ ~req[r].cancelled

\* C22: an answer request that fails after the attach leaves the Turn with
\* the submitted a_text, without a Score and without a successor, so that the
\* session has no open Turn; and an answer call on a session without an open
\* Turn finds no open question: it attaches and inserts nothing.
AttachSurvivesFailure ==
    \A r \in Slots :
        /\ FailedAfterAttach(r)
           => /\ turns[req[r].last_turn_id].a_text = req[r].answer_text
              /\ ScoresOf(req[r].last_turn_id) = {}
              /\ Successors(req[r].session_id, req[r].last_turn_id) = {}
              /\ OpenTurnIds(req[r].session_id) = {}
        /\ AnswerDone(r) /\ req[r].existed /\ req[r].open_at_call = 0
           => /\ req[r].upd = 0 /\ req[r].last_turn_id = 0
              /\ req[r].ins_score = 0 /\ req[r].ins_turn = 0

====
